---- MODULE Spec2Model ----
(***************************************************************************)
(* Grid cell-reservation engine of the Obision Desk extension              *)
(* (src/extension.js, class ObisionExtensionDesk): the bidimensional       *)
(* table _cells, its construction, the reserve / release primitives and    *)
(* the placement queries, and the handlers of the extension that call     *)
(* them: initialisation, settings and work-area changes, the file         *)
(* monitor, folder creation, the size selector and drag and drop.         *)
(*                                                                         *)
(* A cell is modelled by its fields col, row, icon, occupied; the pixel    *)
(* fields width and height are the same for every cell of a table         *)
(* (cellPixels), x and y are col * width and row * height.                *)
(* _cells[col][row] is cells.arr[col+1][row+1] (TLA+ sequences start at   *)
(* 1); cells.isNull is `_cells === null`.                                  *)
(***************************************************************************)
EXTENDS Integers, Sequences, FiniteSets, TLC

\* ------------------------------------------------------------------ bounds
MaxCols == 3
MaxRows == 3
MaxFoot == 2
NumIcons == 2
NumFiles == 2
MaxObjects == 4
MaxSources == 3
MaxEvents == 3
ScreenWidth == 12
ScreenHeight == 12
DockWidth == 3
MaxSide == 7

\* ------------------------------------------------------- program constants
maxRadius == 20

NoIcon == 0
Icons == 1..NumIcons
IconRefs == Icons \cup {NoIcon}

\* Values the settings grid-columns / grid-rows may hold when they are read.
ColumnValues == (-1)..MaxCols
RowValues == (-1)..MaxRows

\* Footprints an icon's _cellSize may hold (1x1 .. 4x4 in the program).
Footprints == [cols : 1..MaxFoot, rows : 1..MaxFoot]

\* Anchor coordinates handed to the engine: one step outside the largest
\* grid on each side.
AnchorCols == (-1)..MaxCols
AnchorRows == (-1)..MaxRows

\* Targets of the nearest search: the anchors, and two targets so far to the
\* right that only the last ring (radius maxRadius) can reach the grid, or
\* no ring at all.
NearestTargets ==
    (AnchorCols \X AnchorRows)
        \cup {<<MaxCols + maxRadius - 1, 0>>, <<MaxCols + maxRadius, 0>>}

VARIABLES
    gridColumns,   \* settings value 'grid-columns'
    gridRows,      \* settings value 'grid-rows'
    cells,         \* this._cells
    last,          \* the last engine call: operation, arguments, result
    enabled,       \* enable() has run and disable() has not
    files,         \* the non-hidden files of the Desktop directory
    icons,         \* the DesktopIcon objects; live = member of this._grid._icons
    iconPositions, \* this._iconPositions
    customSizes,   \* settings value 'custom-icon-sizes'
    sources,       \* the pending timeouts and transitions of the main loop
    ids,           \* _initTimeoutId, _workAreaDebounceId, _reloadTimeout
    creatingFolder,\* this._creatingFolder
    drag,          \* _dragIcon, _isDragging, _canDrop, _dropTargetCol/Row, ...
    obs,           \* work-area notifications and reposition runs seen so far
    workArea,      \* the work area of the primary monitor
    gridBounds,    \* this._gridBounds
    cellPixels     \* width and height of the cells of this._cells

pixelVars == <<workArea, gridBounds, cellPixels>>

deskVars == <<enabled, files, icons, iconPositions, customSizes, sources, ids,
              creatingFolder, drag, obs, workArea, gridBounds>>

vars == <<gridColumns, gridRows, cells, last, enabled, files, icons, iconPositions,
          customSizes, sources, ids, creatingFolder, drag, obs, workArea, gridBounds,
          cellPixels>>

\* ------------------------------------------------------------- cell table
NullCell == [col |-> -1, row |-> -1, icon |-> NoIcon, occupied |-> FALSE]

IsNull(cell) == cell.col < 0

NewCell(col, row) == [col |-> col, row |-> row, icon |-> NoIcon, occupied |-> FALSE]

NullCells == [isNull |-> TRUE, arr |-> <<>>]

\* Variant of BuildCellGrid that reads grid-columns for both loops.
BuildCellGridSquare(columns, rows) ==
    [isNull |-> FALSE,
     arr |-> [c \in 1..columns |-> [r \in 1..columns |-> NewCell(c - 1, r - 1)]]]

\* Variant of BuildCellGrid whose inner loop stops one row early.
BuildCellGridShortRows(columns, rows) ==
    [isNull |-> FALSE,
     arr |-> [c \in 1..columns |-> [r \in 1..(rows - 1) |-> NewCell(c - 1, r - 1)]]]

\* _buildCellGrid: a fresh table of columns x rows free cells; a
\* non-positive count runs the corresponding loop zero times.
BuildCellGrid(columns, rows) ==
    [isNull |-> FALSE,
     arr |-> [c \in 1..columns |-> [r \in 1..rows |-> NewCell(c - 1, r - 1)]]]

\* _buildCellGrid has no validation and no throw statement.
BuildCellGridError(columns, rows) == "none"

\* Variant of GetCell whose lower bound check rejects column 0.
GetCellRejectsFirstColumn(cs, col, row) ==
    IF cs.isNull THEN NullCell
    ELSE IF col <= 0 \/ row < 0 THEN NullCell
    ELSE IF col >= Len(cs.arr) THEN NullCell
    ELSE IF row >= Len(cs.arr[col + 1]) THEN NullCell
    ELSE cs.arr[col + 1][row + 1]

GetCell(cs, col, row) ==
    IF cs.isNull THEN NullCell
    ELSE IF col < 0 \/ row < 0 THEN NullCell
    ELSE IF col >= Len(cs.arr) THEN NullCell
    ELSE IF row >= Len(cs.arr[col + 1]) THEN NullCell
    ELSE cs.arr[col + 1][row + 1]

\* Variant of PlaceIconInCell that marks the anchor cell only.
PlaceIconInCellAnchorOnly(cs, icon, col, row) ==
    [cs EXCEPT !.arr =
        [c \in DOMAIN cs.arr |->
            [r \in DOMAIN cs.arr[c] |->
                IF c - 1 = col /\ r - 1 = row
                THEN [cs.arr[c][r] EXCEPT !.occupied = TRUE, !.icon = icon.id]
                ELSE cs.arr[c][r]]]]

\* placeIconInCell: icon is [id, cellSize]; every existing cell of the
\* placement gets occupied = true, icon = the icon.
PlaceIconInCell(cs, icon, col, row) ==
    [cs EXCEPT !.arr =
        [c \in DOMAIN cs.arr |->
            [r \in DOMAIN cs.arr[c] |->
                IF /\ col <= c - 1 /\ c - 1 < col + icon.cellSize.cols
                   /\ row <= r - 1 /\ r - 1 < row + icon.cellSize.rows
                   /\ ~IsNull(GetCell(cs, c - 1, r - 1))
                THEN [cs.arr[c][r] EXCEPT !.occupied = TRUE, !.icon = icon.id]
                ELSE cs.arr[c][r]]]]

\* Variant of RemoveIconFromCells whose scan stops one column early.
RemoveIconFromCellsShortScan(cs, iconId, columns, rows) ==
    IF cs.isNull THEN cs
    ELSE [cs EXCEPT !.arr =
        [c \in DOMAIN cs.arr |->
            [r \in DOMAIN cs.arr[c] |->
                IF /\ c - 1 < columns - 1 /\ r - 1 < rows
                   /\ ~IsNull(GetCell(cs, c - 1, r - 1))
                   /\ cs.arr[c][r].icon = iconId
                THEN [cs.arr[c][r] EXCEPT !.icon = NoIcon, !.occupied = FALSE]
                ELSE cs.arr[c][r]]]]

\* Variant of RemoveIconFromCells that clears every occupied cell it scans,
\* whatever its icon.
RemoveIconFromCellsAnyIcon(cs, iconId, columns, rows) ==
    IF cs.isNull THEN cs
    ELSE [cs EXCEPT !.arr =
        [c \in DOMAIN cs.arr |->
            [r \in DOMAIN cs.arr[c] |->
                IF c - 1 < columns /\ r - 1 < rows /\ cs.arr[c][r].occupied
                THEN [cs.arr[c][r] EXCEPT !.icon = NoIcon, !.occupied = FALSE]
                ELSE cs.arr[c][r]]]]

\* removeIconFromCells: scans [0, grid-columns) x [0, grid-rows) of the
\* settings and clears every cell whose icon is the given one.
RemoveIconFromCells(cs, iconId, columns, rows) ==
    IF cs.isNull THEN cs
    ELSE [cs EXCEPT !.arr =
        [c \in DOMAIN cs.arr |->
            [r \in DOMAIN cs.arr[c] |->
                IF /\ c - 1 < columns /\ r - 1 < rows
                   /\ ~IsNull(GetCell(cs, c - 1, r - 1))
                   /\ cs.arr[c][r].icon = iconId
                THEN [cs.arr[c][r] EXCEPT !.icon = NoIcon, !.occupied = FALSE]
                ELSE cs.arr[c][r]]]]

\* `n || 1`
OrOne(n) == IF n = 0 THEN 1 ELSE n

\* Variant of AreCellsFree that has no exclusion: any occupied cell blocks.
AreCellsFreeNoExclusion(cs, col, row, cellSize, excludeIcon) ==
    LET cols == OrOne(cellSize.cols)
        rows == OrOne(cellSize.rows)
    IN \A dc \in 0..(cols - 1) : \A dr \in 0..(rows - 1) :
        LET cell == GetCell(cs, col + dc, row + dr)
        IN ~IsNull(cell) /\ ~cell.occupied

\* Variant of AreCellsFree that passes over the cells getCell does not find,
\* as placeIconInCell does.
AreCellsFreeSkipsMissing(cs, col, row, cellSize, excludeIcon) ==
    LET cols == OrOne(cellSize.cols)
        rows == OrOne(cellSize.rows)
    IN \A dc \in 0..(cols - 1) : \A dr \in 0..(rows - 1) :
        LET cell == GetCell(cs, col + dc, row + dr)
        IN IsNull(cell) \/ ~(cell.occupied /\ cell.icon # excludeIcon)

AreCellsFree(cs, col, row, cellSize, excludeIcon) ==
    LET cols == OrOne(cellSize.cols)
        rows == OrOne(cellSize.rows)
    IN \A dc \in 0..(cols - 1) : \A dr \in 0..(rows - 1) :
        LET cell == GetCell(cs, col + dc, row + dr)
        IN /\ ~IsNull(cell)
           /\ ~(cell.occupied /\ cell.icon # excludeIcon)

NotFound == [found |-> FALSE, col |-> -1, row |-> -1]
Found(col, row) == [found |-> TRUE, col |-> col, row |-> row]

\* findFreeCell: row-major scan of the settings' rows x columns; k counts
\* the iterations of the two nested loops.
RECURSIVE FindFreeCellFrom(_, _, _, _, _, _)
FindFreeCellFrom(k, cs, cellSize, excludeIcon, columns, rows) ==
    IF columns <= 0 \/ k >= rows * columns THEN NotFound
    ELSE LET row == k \div columns
             col == k % columns
         IN IF AreCellsFree(cs, col, row, cellSize, excludeIcon)
            THEN Found(col, row)
            ELSE FindFreeCellFrom(k + 1, cs, cellSize, excludeIcon, columns, rows)

\* Variant of FindFreeCell that scans column by column.
FindFreeCellColumnMajor(cs, cellSize, excludeIcon, columns, rows) ==
    LET free == {p \in (0..(columns - 1)) \X (0..(rows - 1)) :
                    AreCellsFree(cs, p[1], p[2], cellSize, excludeIcon)}
    IN IF free = {} THEN NotFound
       ELSE LET f == CHOOSE a \in free : \A b \in free :
                        a = b \/ a[1] < b[1] \/ (a[1] = b[1] /\ a[2] < b[2])
            IN Found(f[1], f[2])

FindFreeCell(cs, cellSize, excludeIcon, columns, rows) ==
    FindFreeCellFrom(0, cs, cellSize, excludeIcon, columns, rows)

Abs(n) == IF n < 0 THEN 0 - n ELSE n

Max(a, b) == IF a > b THEN a ELSE b

\* `if (col < 0 || row < 0) continue;`
Skipped(col, row) == col < 0 \/ row < 0

\* The anchors of the table: _cells[col][row] exists.
TableAnchors(cs) ==
    UNION {{<<c - 1, r - 1>> : r \in DOMAIN cs.arr[c]} : c \in DOMAIN cs.arr}

\* A candidate of the spiral is <<radius, dc, dr>>: the offset (dc, dr) and
\* the ring it lies on, radius = max(|dc|, |dr|) (the loops skip every offset
\* of the square that is not on its perimeter).
Candidate(dc, dr) == <<Max(Abs(dc), Abs(dr)), dc, dr>>

\* Visiting order: rings by ascending radius; within a ring the two nested
\* loops, dc ascending, then dr ascending.
\* Variant of VisitedBefore that visits the rings by descending radius.
VisitedBeforeFarFirst(a, b) ==
    \/ a[1] > b[1]
    \/ a[1] = b[1] /\ a[2] < b[2]
    \/ a[1] = b[1] /\ a[2] = b[2] /\ a[3] < b[3]

\* Variant of VisitedBefore with the two loops of a ring exchanged: dr
\* ascending, then dc ascending.
VisitedBeforeRowFirst(a, b) ==
    \/ a[1] < b[1]
    \/ a[1] = b[1] /\ a[3] < b[3]
    \/ a[1] = b[1] /\ a[3] = b[3] /\ a[2] < b[2]

VisitedBefore(a, b) ==
    \/ a[1] < b[1]
    \/ a[1] = b[1] /\ a[2] < b[2]
    \/ a[1] = b[1] /\ a[2] = b[2] /\ a[3] < b[3]

\* The spiral of findNearestFreeCell: rings radius = 1 .. maxRadius.
\* areCellsFree is false for every anchor that is no cell of the table
\* (getCell returns null there), so the candidates that can be returned are
\* the cells of the table; the first of them, in visiting order, that is
\* not skipped and is free is returned.
Spiral(cs, targetCol, targetRow, cellSize, excludeIcon) ==
    LET free == {k \in {Candidate(p[1] - targetCol, p[2] - targetRow) : p \in TableAnchors(cs)} :
                    /\ 1 <= k[1] /\ k[1] <= maxRadius
                    /\ ~Skipped(targetCol + k[2], targetRow + k[3])
                    /\ AreCellsFree(cs, targetCol + k[2], targetRow + k[3],
                                    cellSize, excludeIcon)}
    IN IF free = {} THEN NotFound
       ELSE LET first == CHOOSE a \in free : \A b \in free : a = b \/ VisitedBefore(a, b)
            IN Found(targetCol + first[2], targetRow + first[3])

\* Variant of FindNearestFreeCell without the early return for a free
\* target: the spiral is always searched.
FindNearestFreeCellNoShortcut(cs, targetCol, targetRow, cellSize, excludeIcon) ==
    [res |-> Spiral(cs, targetCol, targetRow, cellSize, excludeIcon),
     searched |-> TRUE]

\* findNearestFreeCell: the target itself first; searched tells whether the
\* spiral loop was entered.
FindNearestFreeCell(cs, targetCol, targetRow, cellSize, excludeIcon) ==
    IF AreCellsFree(cs, targetCol, targetRow, cellSize, excludeIcon)
    THEN [res |-> Found(targetCol, targetRow), searched |-> FALSE]
    ELSE [res |-> Spiral(cs, targetCol, targetRow, cellSize, excludeIcon),
          searched |-> TRUE]

\* The cells whose icon is the given one.
CellsOf(cs, id) ==
    {p \in (0..(MaxCols - 1)) \X (0..(MaxRows - 1)) : GetCell(cs, p[1], p[2]).icon = id}

\* ---------------------------------------------------------- desktop state
\* Time is counted in ticks of 50 ms, the greatest common divisor of the
\* delays below.
Ticks(ms) == ms \div 50

initDelay == 150
debounceDelay == 100
dashDelay == 300
reloadItemDelay == 200
reloadAllDelay == 500
folderFlagDelay == 1000
easeDuration == 150

Files == 1..NumFiles
NoFile == 0

\* The DesktopIcon objects the handlers may create.
Objects == 1..MaxObjects

\* A destroyed DesktopIcon that a cell or _dragIcon still refers to: it is
\* not null and equal to no icon of the grid.
StaleIcon == -1

OneByOne == [cols |-> 1, rows |-> 1]

\* The footprints ICON_CELL_SIZES has a key for, and _getIconCellSize for
\* the footprint a custom-icon-sizes entry names.
ICON_CELL_SIZES ==
    {[cols |-> 1, rows |-> 1], [cols |-> 2, rows |-> 1], [cols |-> 1, rows |-> 2],
     [cols |-> 2, rows |-> 2], [cols |-> 3, rows |-> 1], [cols |-> 1, rows |-> 3],
     [cols |-> 3, rows |-> 2], [cols |-> 2, rows |-> 3], [cols |-> 3, rows |-> 3],
     [cols |-> 4, rows |-> 1], [cols |-> 1, rows |-> 4], [cols |-> 4, rows |-> 2],
     [cols |-> 2, rows |-> 4], [cols |-> 4, rows |-> 4]}

GetIconCellSize(customSize) == IF customSize \in ICON_CELL_SIZES THEN customSize ELSE OneByOne

\* The sizes the size selector of the context menu offers: the key it
\* stores is `${selCol}x${selRow}` for a click on (selCol, selRow) of its
\* gridSize x gridSize cells.
gridSize == 4
SelectorSizes == [cols : 1..gridSize, rows : 1..gridSize]

\* The value of a division by zero (of a positive number) and of what is
\* computed from it by zero times or minus.
Infinity == 1000000
NaN == -1

\* Math.floor(a / b) and Math.round(a / b) for a >= 0 and b > 0; halves are
\* rounded up, and anything divided by Infinity is 0.
FloorDiv(a, b) == IF b = 0 THEN Infinity ELSE a \div b
Round(a, b) == (2 * a + b) \div (2 * b)

\* The work areas of the primary monitor: the whole screen, or the screen
\* without a dock on its left.
WorkAreas ==
    {[x |-> ScreenWidth - w, y |-> 0, width |-> w, height |-> ScreenHeight] :
        w \in {ScreenWidth, ScreenWidth - DockWidth}}

FullArea == [x |-> 0, y |-> 0, width |-> ScreenWidth, height |-> ScreenHeight]

\* Work areas of every width and height up to MaxSide, at the screen's
\* corner or one pixel off.
PositionAreas == [x : 0..1, y : 0..1, width : 1..MaxSide, height : 1..MaxSide]

\* this._gridBounds before the first _updateGridPosition.
NoBounds ==
    [set |-> FALSE, x |-> 0, y |-> 0, width |-> 0, height |-> 0,
     cellWidth |-> 0, cellHeight |-> 0]

NoPixels == [width |-> 0, height |-> 0]

\* Variant of UpdateGridPosition that rounds the cell width and height to
\* the nearest integer.
UpdateGridPositionRounded(wa, columns, rows) ==
    LET cellWidth == IF columns = 0 THEN Infinity ELSE Round(wa.width, columns)
        cellHeight == IF rows = 0 THEN Infinity ELSE Round(wa.height, rows)
        gridWidth == IF columns = 0 THEN NaN ELSE cellWidth * columns
        gridHeight == IF rows = 0 THEN NaN ELSE cellHeight * rows
        offsetX == IF columns = 0 THEN NaN ELSE (wa.width - gridWidth) \div 2
        offsetY == IF rows = 0 THEN NaN ELSE (wa.height - gridHeight) \div 2
    IN [set |-> TRUE,
        x |-> IF columns = 0 THEN NaN ELSE wa.x + offsetX,
        y |-> IF rows = 0 THEN NaN ELSE wa.y + offsetY,
        width |-> gridWidth, height |-> gridHeight,
        cellWidth |-> cellWidth, cellHeight |-> cellHeight]

\* _updateGridPosition: the value it gives this._gridBounds.  Without a
\* column (row) the cell width is Infinity and the grid's width and x are
\* NaN.
UpdateGridPosition(wa, columns, rows) ==
    LET cellWidth == FloorDiv(wa.width, columns)
        cellHeight == FloorDiv(wa.height, rows)
        gridWidth == IF columns = 0 THEN NaN ELSE cellWidth * columns
        gridHeight == IF rows = 0 THEN NaN ELSE cellHeight * rows
        offsetX == IF columns = 0 THEN NaN ELSE (wa.width - gridWidth) \div 2
        offsetY == IF rows = 0 THEN NaN ELSE (wa.height - gridHeight) \div 2
    IN [set |-> TRUE,
        x |-> IF columns = 0 THEN NaN ELSE wa.x + offsetX,
        y |-> IF rows = 0 THEN NaN ELSE wa.y + offsetY,
        width |-> gridWidth, height |-> gridHeight,
        cellWidth |-> cellWidth, cellHeight |-> cellHeight]

\* _getCellWidth and _getCellHeight: the cached value if there is one and
\* it is not 0, or else the work area divided by the setting.
GetCellWidth(gb, wa, columns) ==
    IF gb.set /\ gb.cellWidth # 0 THEN gb.cellWidth ELSE FloorDiv(wa.width, columns)

GetCellHeight(gb, wa, rows) ==
    IF gb.set /\ gb.cellHeight # 0 THEN gb.cellHeight ELSE FloorDiv(wa.height, rows)

\* The two together: the width and height _buildCellGrid gives every cell.
CellSizeNow(gb, wa, columns, rows) ==
    [width |-> GetCellWidth(gb, wa, columns), height |-> GetCellHeight(gb, wa, rows)]

\* An icon object that is no member of _grid._icons.  Of an icon, x and y
\* are the actor's position in the grid, col and row the cell it was last
\* positioned at.
DeadIcon ==
    [live |-> FALSE, file |-> NoFile, col |-> 0, row |-> 0, x |-> 0, y |-> 0,
     cellSize |-> OneByOne]

NoPos == [set |-> FALSE, col |-> 0, row |-> 0]
SavedPos(col, row) == [set |-> TRUE, col |-> col, row |-> row]

SourceIds == 1..MaxSources
NoSource == [kind |-> "none", t |-> 0, file |-> NoFile, icon |-> NoIcon, col |-> 0, row |-> 0]
Timeout(kind, ms) == [NoSource EXCEPT !.kind = kind, !.t = Ticks(ms)]

NoIds == [init |-> 0, debounce |-> 0, reload |-> 0]

NoDrag ==
    [icon |-> NoIcon, dragging |-> FALSE, canDrop |-> FALSE, hasTarget |-> FALSE,
     col |-> 0, row |-> 0, origX |-> 0, origY |-> 0, indicator |-> FALSE]

\* What the model observes of a behaviour: the environment's events, the
\* notifications among them, the ticks since the last notification and the
\* runs of the debounce timeout.
NoObs == [count |-> 0, burst |-> 0, since |-> 0, runs |-> 0]

Pending(src) == {s \in SourceIds : src[s].kind # "none"}
HasFreeSource(src) == Pending(src) # SourceIds
FreeSourceId(src) == CHOOSE s \in SourceIds \ Pending(src) : \A o \in SourceIds \ Pending(src) : s <= o

\* GLib.timeout_add / icon.ease: a new pending source; its id.
AddSource(src, rec) == [src EXCEPT ![FreeSourceId(src)] = rec]

\* GLib.source_remove(id); the callers test the id first.
RemoveSource(src, id) == IF id = 0 THEN src ELSE [src EXCEPT ![id] = NoSource]

LiveIcons(ic) == {id \in Objects : ic[id].live}
IconOfFile(ic, name) == {id \in LiveIcons(ic) : ic[id].file = name}

\* icon.destroy(): the transitions of the actor stop without completing;
\* cells and _dragIcon keep their reference to the destroyed object.
MarkStale(cs, dead) ==
    [cs EXCEPT !.arr =
        [c \in DOMAIN cs.arr |->
            [r \in DOMAIN cs.arr[c] |->
                IF cs.arr[c][r].icon \in dead
                THEN [cs.arr[c][r] EXCEPT !.icon = StaleIcon]
                ELSE cs.arr[c][r]]]]

StopTransitions(src, dead) ==
    [s \in SourceIds |-> IF src[s].kind = "ease" /\ src[s].icon \in dead THEN NoSource ELSE src[s]]

DragAfterDestroy(dg, dead) == IF dg.icon \in dead THEN [dg EXCEPT !.icon = StaleIcon] ELSE dg

\* Whether a position is read early or late matters while an icon moves.
Lates(src) == IF \E s \in SourceIds : src[s].kind = "ease" THEN BOOLEAN ELSE {FALSE}

\* An icon's position as a handler reads it.  While the icon is eased to
\* a cell the position read lies between the start and the cell's x and y;
\* the model lets a reader see the start (late = FALSE) or the end.
PositionSeen(ic, src, id, late) ==
    LET eased == {s \in SourceIds : src[s].kind = "ease" /\ src[s].icon = id}
    IN IF late /\ eased # {}
       THEN LET s == CHOOSE e \in eased : TRUE
            IN <<src[s].col * cellPixels.width, src[s].row * cellPixels.height>>
       ELSE <<ic[id].x, ic[id].y>>

\* The table with its cells' width and height, the icon list, the saved
\* positions and what _getCellWidth and _getCellHeight return (size) while
\* a handler runs; ok: every placeIconInCell call so far was made on a
\* placement for which areCellsFree(col, row, cellSize, icon) held; placed:
\* there was a call.
Desk(cs, px, ic, pos, columns, rows, size) ==
    [cells |-> cs, px |-> px, icons |-> ic, pos |-> pos, columns |-> columns,
     rows |-> rows, size |-> size, ok |-> TRUE, placed |-> FALSE]

\* The next DesktopIcon object; a handler that creates n icons needs n.
CanCreate(ic, n) == Cardinality(Objects \ LiveIcons(ic)) >= n
FreshIcon(ic) == CHOOSE id \in Objects \ LiveIcons(ic) : \A o \in Objects \ LiveIcons(ic) : id <= o

\* placeIconInCell as called by a handler, with the precondition recorded:
\* the cells of the placement, then the icon's position if there is a cell
\* at the anchor.
DeskPlace(d, id, col, row) ==
    LET cellSize == d.icons[id].cellSize
    IN [d EXCEPT !.cells = PlaceIconInCell(d.cells, [id |-> id, cellSize |-> cellSize], col, row),
                 !.icons = IF IsNull(GetCell(d.cells, col, row)) THEN @
                           ELSE [@ EXCEPT ![id].col = col, ![id].row = row,
                                          ![id].x = col * d.px.width,
                                          ![id].y = row * d.px.height],
                 !.ok = @ /\ AreCellsFree(d.cells, col, row, cellSize, id),
                 !.placed = TRUE]

\* DesktopGrid.clearIcons
ClearIcons(d) ==
    [d EXCEPT !.icons = [id \in Objects |-> DeadIcon],
              !.cells = MarkStale(d.cells, LiveIcons(d.icons))]

\* One iteration of the loop of _loadDesktopFiles, for the file `name`.
LoadFile(d, name) ==
    LET id == FreshIcon(d.icons)
        cellSize == GetIconCellSize(customSizes[name])
        saved == d.pos[name]
        targetCol == IF saved.set THEN saved.col ELSE 0
        targetRow == IF saved.set THEN saved.row ELSE 0
        freeCell == IF AreCellsFree(d.cells, targetCol, targetRow, cellSize, NoIcon)
                    THEN Found(targetCol, targetRow)
                    ELSE FindFreeCell(d.cells, cellSize, NoIcon, d.columns, d.rows)
        icon == [live |-> TRUE, file |-> name, col |-> 0, row |-> 0, x |-> 0, y |-> 0,
                 cellSize |-> cellSize]
    IN IF freeCell.found
       THEN IF IsNull(GetCell(d.cells, freeCell.col, freeCell.row))
            THEN d
            ELSE DeskPlace([d EXCEPT !.icons[id] =
                                [icon EXCEPT !.col = freeCell.col, !.row = freeCell.row,
                                             !.x = freeCell.col * d.px.width,
                                             !.y = freeCell.row * d.px.height]],
                           id, freeCell.col, freeCell.row)
       ELSE [d EXCEPT !.icons[id] = icon]

\* _loadDesktopFiles: the files in the order the enumerator yields them.
RECURSIVE LoadDesktopFilesFrom(_, _, _)
LoadDesktopFilesFrom(k, d, order) ==
    IF k > Len(order) THEN d
    ELSE LoadDesktopFilesFrom(k + 1, LoadFile(d, order[k]), order)

LoadDesktopFiles(d, order) == LoadDesktopFilesFrom(1, d, order)

\* The orders in which a directory of the given files may be enumerated.
Orders(S) ==
    {o \in [1..Cardinality(S) -> S] : \A i, j \in 1..Cardinality(S) : o[i] = o[j] => i = j}

\* Variant of FreeCellsAt that resets the occupied flag only.
FreeCellsAtFlagOnly(cs, col, row, cellSize) ==
    [cs EXCEPT !.arr =
        [c \in DOMAIN cs.arr |->
            [r \in DOMAIN cs.arr[c] |->
                IF /\ col <= c - 1 /\ c - 1 < col + cellSize.cols
                   /\ row <= r - 1 /\ r - 1 < row + cellSize.rows
                THEN [cs.arr[c][r] EXCEPT !.occupied = FALSE]
                ELSE cs.arr[c][r]]]]

\* The deletion branch of the file monitor frees the cells under the icon:
\* the loops over c and r stop at the table's edge.
FreeCellsAt(cs, col, row, cellSize) ==
    [cs EXCEPT !.arr =
        [c \in DOMAIN cs.arr |->
            [r \in DOMAIN cs.arr[c] |->
                IF /\ col <= c - 1 /\ c - 1 < col + cellSize.cols
                   /\ row <= r - 1 /\ r - 1 < row + cellSize.rows
                THEN [cs.arr[c][r] EXCEPT !.occupied = FALSE, !.icon = NoIcon]
                ELSE cs.arr[c][r]]]]


\* ------------------------------------------------------------------ state
\* Every engine call is made from a handler of the single-threaded main
\* loop.  last is the record of the call the running handler has made
\* (operation, arguments, result); op = "idle" when no handler runs.
Blank ==
    [op |-> "idle", icon |-> NoIcon, col |-> 0, row |-> 0, cols |-> 0, rows |-> 0,
     exclude |-> NoIcon, found |-> FALSE, rcol |-> -1, rrow |-> -1, searched |-> FALSE,
     cell |-> NullCell, error |-> "none", placed |-> FALSE, placedFree |-> TRUE]

\* After enable(): no table yet, the settings hold whatever was configured.
Init ==
    /\ gridColumns \in ColumnValues
    /\ gridRows \in RowValues
    /\ cells = NullCells
    /\ last = Blank
    /\ enabled = TRUE
    /\ files = {}
    /\ icons = [id \in Objects |-> DeadIcon]
    /\ iconPositions = [name \in Files |-> NoPos]
    /\ customSizes = [name \in Files |-> OneByOne]
    /\ sources = [s \in SourceIds |-> IF s = 1 THEN Timeout("init", initDelay) ELSE NoSource]
    /\ ids = [NoIds EXCEPT !.init = 1]
    /\ creatingFolder = FALSE
    /\ drag = NoDrag
    /\ obs = NoObs
    /\ workArea = FullArea
    /\ gridBounds = NoBounds
    /\ cellPixels = NoPixels

\* _buildCellGrid reads grid-columns and grid-rows and replaces the table.
\* A change of either key runs the settings handler, which rebuilds at once,
\* so the values read are the values every later call reads.  last.found
\* records whether the table held an icon before the call.
Build(columns, rows) ==
    /\ last.op = "idle"
    /\ gridColumns' = columns
    /\ gridRows' = rows
    /\ cells' = BuildCellGrid(columns, rows)
    /\ cellPixels' = CellSizeNow(gridBounds, workArea, columns, rows)
    /\ last' = [Blank EXCEPT !.op = "build", !.cols = columns, !.rows = rows,
                             !.found = (\E id \in Icons : CellsOf(cells, id) # {}),
                             !.error = BuildCellGridError(columns, rows)]
    /\ UNCHANGED deskVars

\* placeIconInCell is called for an icon that holds no cell: a newly created
\* icon, or a dragged icon after removeIconFromCells.  The target need not
\* be free: the primitive does not check.  last.found records whether
\* areCellsFree held for the placement just before the call.
Place(id, cellSize, col, row) ==
    /\ last.op = "idle"
    /\ CellsOf(cells, id) = {}
    /\ cells' = PlaceIconInCell(cells, [id |-> id, cellSize |-> cellSize], col, row)
    /\ last' = [Blank EXCEPT !.op = "place", !.icon = id, !.col = col, !.row = row,
                             !.cols = cellSize.cols, !.rows = cellSize.rows,
                             !.found = AreCellsFree(cells, col, row, cellSize, NoIcon)]
    /\ UNCHANGED <<gridColumns, gridRows, cellPixels>>
    /\ UNCHANGED deskVars

\* last.found records whether the icon held a cell before the call.
Release(id) ==
    /\ last.op = "idle"
    /\ cells' = RemoveIconFromCells(cells, id, gridColumns, gridRows)
    /\ last' = [Blank EXCEPT !.op = "release", !.icon = id,
                             !.found = (CellsOf(cells, id) # {})]
    /\ UNCHANGED <<gridColumns, gridRows, cellPixels>>
    /\ UNCHANGED deskVars

\* placeIconInCell, removeIconFromCells and areCellsFree of the same
\* placement, one after the other; last.found is what areCellsFree returned.
RoundTrip(id, cellSize, col, row) ==
    /\ last.op = "idle"
    /\ LET reserved == PlaceIconInCell(cells, [id |-> id, cellSize |-> cellSize], col, row)
           released == RemoveIconFromCells(reserved, id, gridColumns, gridRows)
       IN /\ cells' = released
          /\ last' = [Blank EXCEPT !.op = "roundTrip", !.icon = id, !.col = col, !.row = row,
                                   !.cols = cellSize.cols, !.rows = cellSize.rows,
                                   !.found = AreCellsFree(released, col, row, cellSize, NoIcon)]
    /\ UNCHANGED <<gridColumns, gridRows, cellPixels>>
    /\ UNCHANGED deskVars

GetCellCall(col, row) ==
    /\ last.op = "idle"
    /\ LET cell == GetCell(cells, col, row)
       IN last' = [Blank EXCEPT !.op = "getCell", !.col = col, !.row = row,
                                !.found = ~IsNull(cell), !.cell = cell]
    /\ UNCHANGED <<gridColumns, gridRows, cells, cellPixels>>
    /\ UNCHANGED deskVars

AreCellsFreeCall(col, row, cellSize, excludeIcon) ==
    /\ last.op = "idle"
    /\ last' = [Blank EXCEPT !.op = "areCellsFree", !.col = col, !.row = row,
                             !.cols = cellSize.cols, !.rows = cellSize.rows,
                             !.exclude = excludeIcon,
                             !.found = AreCellsFree(cells, col, row, cellSize, excludeIcon)]
    /\ UNCHANGED <<gridColumns, gridRows, cells, cellPixels>>
    /\ UNCHANGED deskVars

FindFreeCellCall(cellSize, excludeIcon) ==
    /\ last.op = "idle"
    /\ LET res == FindFreeCell(cells, cellSize, excludeIcon, gridColumns, gridRows)
       IN last' = [Blank EXCEPT !.op = "findFreeCell",
                                !.cols = cellSize.cols, !.rows = cellSize.rows,
                                !.exclude = excludeIcon,
                                !.found = res.found, !.rcol = res.col, !.rrow = res.row]
    /\ UNCHANGED <<gridColumns, gridRows, cells, cellPixels>>
    /\ UNCHANGED deskVars

FindNearestFreeCellCall(targetCol, targetRow, cellSize, excludeIcon) ==
    /\ last.op = "idle"
    /\ LET call == FindNearestFreeCell(cells, targetCol, targetRow, cellSize, excludeIcon)
           res == call.res
       IN last' = [Blank EXCEPT !.op = "findNearestFreeCell",
                                !.col = targetCol, !.row = targetRow,
                                !.cols = cellSize.cols, !.rows = cellSize.rows,
                                !.exclude = excludeIcon,
                                !.found = res.found, !.rcol = res.col, !.rrow = res.row,
                                !.searched = call.searched]
    /\ UNCHANGED <<gridColumns, gridRows, cells, cellPixels>>
    /\ UNCHANGED deskVars

\* The handler that made the call returns to the main loop.
Return ==
    /\ last.op # "idle"
    /\ last' = Blank
    /\ UNCHANGED <<gridColumns, gridRows, cells, cellPixels>>
    /\ UNCHANGED deskVars

\* The calls that change the table.
Mutate ==
    \/ \E columns \in ColumnValues, rows \in RowValues : Build(columns, rows)
    \/ \E id \in Icons, cellSize \in Footprints, col \in AnchorCols, row \in AnchorRows :
          Place(id, cellSize, col, row)
    \/ \E id \in Icons : Release(id)
    \/ Return

\* build / reserve / release only.
Spec == Init /\ [][Mutate]_vars

NextGet ==
    \/ Mutate
    \/ \E col \in AnchorCols, row \in AnchorRows : GetCellCall(col, row)

SpecGet == Init /\ [][NextGet]_vars

NextFree ==
    \/ Mutate
    \/ \E col \in AnchorCols, row \in AnchorRows, cellSize \in Footprints,
          excludeIcon \in IconRefs :
          AreCellsFreeCall(col, row, cellSize, excludeIcon)

SpecFree == Init /\ [][NextFree]_vars

NextFind ==
    \/ Mutate
    \/ \E cellSize \in Footprints, excludeIcon \in IconRefs :
          FindFreeCellCall(cellSize, excludeIcon)

SpecFind == Init /\ [][NextFind]_vars

\* The nearest search is exercised on the largest grid and on the empty
\* one, excluding no icon or the first one (icons are interchangeable).
NextNearest ==
    \/ \E columns \in {0, MaxCols}, rows \in {0, MaxRows} : Build(columns, rows)
    \/ \E id \in Icons, cellSize \in Footprints, col \in AnchorCols, row \in AnchorRows :
          Place(id, cellSize, col, row)
    \/ \E id \in Icons : Release(id)
    \/ \E t \in NearestTargets, cellSize \in Footprints, excludeIcon \in {NoIcon, 1} :
          FindNearestFreeCellCall(t[1], t[2], cellSize, excludeIcon)
    \/ Return

SpecNearest == Init /\ [][NextNearest]_vars

NextRound ==
    \/ Mutate
    \/ \E id \in Icons, cellSize \in Footprints, col \in AnchorCols, row \in AnchorRows :
          RoundTrip(id, cellSize, col, row)

SpecRound == Init /\ [][NextRound]_vars

\* --------------------------------------------------------------- handlers
\* A behaviour has at most MaxEvents events of the environment (file
\* events, settings and display signals, pointer events that start or move
\* a drag).
Budget == obs.count < MaxEvents
Counted == [obs EXCEPT !.count = @ + 1]

\* What a handler that ran on the desk d leaves in last.
Ran(op, d) == [Blank EXCEPT !.op = op, !.placed = d.placed, !.placedFree = d.ok]

\* Grid dimensions the desktop starts with: one and the most.
DeskColumns == {1, MaxCols}
DeskRows == {1, MaxRows}

\* Custom sizes the desktop starts with: the first k files have the largest
\* footprint, the others the default.
DeskSizes ==
    {[name \in Files |-> IF name <= k THEN [cols |-> MaxFoot, rows |-> MaxFoot] ELSE OneByOne] :
        k \in 0..NumFiles}

\* After enable(), with the Desktop directory and the custom sizes as an
\* earlier session left them, no saved position and one of the given work
\* areas.
InitDeskOn(areas) ==
    /\ gridColumns \in DeskColumns
    /\ gridRows \in DeskRows
    /\ cells = NullCells
    /\ last = Blank
    /\ enabled = TRUE
    /\ files \in SUBSET Files
    /\ icons = [id \in Objects |-> DeadIcon]
    /\ iconPositions = [name \in Files |-> NoPos]
    /\ customSizes \in DeskSizes
    /\ sources = [s \in SourceIds |-> IF s = 1 THEN Timeout("init", initDelay) ELSE NoSource]
    /\ ids = [NoIds EXCEPT !.init = 1]
    /\ creatingFolder = FALSE
    /\ drag = NoDrag
    /\ obs = NoObs
    /\ workArea \in areas
    /\ gridBounds = NoBounds
    /\ cellPixels = NoPixels

\* After enable() with the whole screen as the work area.
InitDesk == InitDeskOn({FullArea})

\* 50 ms pass.  A timeout that is due runs before time advances further.
Tick ==
    /\ \A s \in Pending(sources) : sources[s].t > 0
    /\ Pending(sources) # {} \/ (obs.burst > 0 /\ obs.since < Ticks(debounceDelay))
    /\ sources' = [s \in SourceIds |->
                      IF sources[s].kind = "none" THEN NoSource
                      ELSE [sources[s] EXCEPT !.t = @ - 1]]
    /\ obs' = IF obs.burst > 0 /\ obs.since < Ticks(debounceDelay)
              THEN [obs EXCEPT !.since = @ + 1]
              ELSE obs
    /\ last' = Blank
    /\ UNCHANGED <<gridColumns, gridRows, cells, enabled, files, icons, iconPositions,
                   customSizes, ids, creatingFolder, drag>>
    /\ UNCHANGED pixelVars

\* The initialisation timeout of enable(): _updateGridPosition (which
\* builds), _buildCellGrid, _loadDesktopFiles.
InitTimeout ==
    \E s \in SourceIds, order \in Orders(files) :
        /\ sources[s].kind = "init" /\ sources[s].t = 0
        /\ CanCreate(icons, Cardinality(files))
        /\ LET gb == UpdateGridPosition(workArea, gridColumns, gridRows)
               size == CellSizeNow(gb, workArea, gridColumns, gridRows)
               d == LoadDesktopFiles(
                        Desk(BuildCellGrid(gridColumns, gridRows), size, icons, iconPositions,
                             gridColumns, gridRows, size), order)
           IN /\ gridBounds' = gb
              /\ cellPixels' = size
              /\ cells' = d.cells
              /\ icons' = d.icons
              /\ last' = Ran("initTimeout", d)
        /\ sources' = RemoveSource(sources, s)
        /\ ids' = [ids EXCEPT !.init = 0]
        /\ UNCHANGED <<gridColumns, gridRows, enabled, files, iconPositions, customSizes,
                       creatingFolder, drag, obs, workArea>>

\* The file monitor's handler replaces the pending _reloadTimeout, if any,
\* by a new timeout.
ScheduleReload(rec) ==
    LET removed == RemoveSource(sources, ids.reload)
    IN /\ HasFreeSource(removed)
       /\ sources' = AddSource(removed, rec)
       /\ ids' = [ids EXCEPT !.reload = FreeSourceId(removed)]

\* A file appears in the Desktop directory (CREATED, or MOVED_IN when
\* moved) and the monitor reports it.
FileAppears(name, moved) ==
    /\ enabled
    /\ Budget
    /\ obs' = Counted
    /\ name \notin files
    /\ files' = files \cup {name}
    /\ IF creatingFolder /\ ~moved
       THEN ScheduleReload([Timeout("reloadAdd", reloadItemDelay) EXCEPT !.file = name])
       ELSE ScheduleReload(Timeout("reloadAll", reloadAllDelay))
    /\ last' = [Blank EXCEPT !.op = "fileAppears"]
    /\ UNCHANGED <<gridColumns, gridRows, cells, enabled, icons, iconPositions,
                   customSizes, creatingFolder, drag>>
    /\ UNCHANGED pixelVars

\* A file leaves the Desktop directory (DELETED or MOVED_OUT).
FileVanishes(name) ==
    /\ enabled
    /\ Budget
    /\ obs' = Counted
    /\ name \in files
    /\ files' = files \ {name}
    /\ ScheduleReload([Timeout("reloadRemove", reloadItemDelay) EXCEPT !.file = name])
    /\ last' = [Blank EXCEPT !.op = "fileVanishes"]
    /\ UNCHANGED <<gridColumns, gridRows, cells, enabled, icons, iconPositions,
                   customSizes, creatingFolder, drag>>
    /\ UNCHANGED pixelVars

\* The 200 ms timeout of the folder-creation branch: add one icon.  After
\* disable() this._grid is null and the try block is left at once.
AddIconTimeout ==
    \E s \in SourceIds :
        /\ sources[s].kind = "reloadAdd" /\ sources[s].t = 0
        /\ CanCreate(icons, 1)
        /\ LET name == sources[s].file
               id == FreshIcon(icons)
               cellSize == GetIconCellSize(customSizes[name])
               freeCell == FindFreeCell(cells, cellSize, NoIcon, gridColumns, gridRows)
               size == CellSizeNow(gridBounds, workArea, gridColumns, gridRows)
               d0 == Desk(cells, cellPixels, icons, iconPositions, gridColumns, gridRows, size)
               d == IF ~enabled \/ name \notin files \/ IconOfFile(icons, name) # {}
                       \/ ~freeCell.found
                    THEN d0
                    ELSE [DeskPlace([d0 EXCEPT !.icons[id] =
                                        [live |-> TRUE, file |-> name, col |-> freeCell.col,
                                         row |-> freeCell.row,
                                         x |-> freeCell.col * size.width,
                                         y |-> freeCell.row * size.height,
                                         cellSize |-> cellSize]],
                                    id, freeCell.col, freeCell.row)
                            EXCEPT !.pos[name] = SavedPos(freeCell.col, freeCell.row)]
           IN /\ cells' = d.cells
              /\ icons' = d.icons
              /\ iconPositions' = d.pos
              /\ last' = Ran("addIconTimeout", d)
        /\ sources' = RemoveSource(sources, s)
        /\ ids' = [ids EXCEPT !.reload = 0]
        /\ UNCHANGED <<gridColumns, gridRows, enabled, files, customSizes, creatingFolder,
                       drag, obs>>
        /\ UNCHANGED pixelVars

\* The 200 ms timeout of the deletion branch: free the cells under the
\* icon of the file, then remove the icon.  Without a table the loop header
\* throws and the icon stays.
RemoveIconTimeout ==
    \E s \in SourceIds :
        /\ sources[s].kind = "reloadRemove" /\ sources[s].t = 0
        /\ LET found == IconOfFile(icons, sources[s].file)
               left == RemoveSource(sources, s)
           IN IF ~enabled \/ found = {} \/ cells.isNull
              THEN /\ sources' = left
                   /\ UNCHANGED <<cells, icons, drag>>
              ELSE \E id \in found, late \in Lates(sources) :
                      /\ LET p == PositionSeen(icons, sources, id, late)
                             size == CellSizeNow(gridBounds, workArea, gridColumns, gridRows)
                             col == Round(p[1], size.width)
                             row == Round(p[2], size.height)
                         IN cells' = MarkStale(FreeCellsAt(cells, col, row, icons[id].cellSize),
                                               {id})
                      /\ icons' = [icons EXCEPT ![id] = DeadIcon]
                      /\ sources' = StopTransitions(left, {id})
                      /\ drag' = DragAfterDestroy(drag, {id})
        /\ ids' = [ids EXCEPT !.reload = 0]
        /\ last' = [Blank EXCEPT !.op = "removeIconTimeout"]
        /\ UNCHANGED <<gridColumns, gridRows, enabled, files, iconPositions, customSizes,
                       creatingFolder, obs>>
        /\ UNCHANGED pixelVars

\* The 500 ms timeout of the remaining branch: clearIcons and
\* _loadDesktopFiles, on the table as it is.  After disable() clearIcons is
\* called on null and the callback throws before it resets _reloadTimeout.
ReloadAllTimeout ==
    \E s \in SourceIds, order \in Orders(files) :
        /\ sources[s].kind = "reloadAll" /\ sources[s].t = 0
        /\ IF ~enabled
           THEN /\ sources' = RemoveSource(sources, s)
                /\ last' = [Blank EXCEPT !.op = "reloadAllTimeout"]
                /\ UNCHANGED <<cells, icons, ids, drag>>
           ELSE LET size == CellSizeNow(gridBounds, workArea, gridColumns, gridRows)
                    d == LoadDesktopFiles(
                            ClearIcons(Desk(cells, cellPixels, icons, iconPositions,
                                            gridColumns, gridRows, size)),
                            order)
                IN /\ cells' = d.cells
                   /\ icons' = d.icons
                   /\ last' = Ran("reloadAllTimeout", d)
                   /\ sources' = StopTransitions(RemoveSource(sources, s), LiveIcons(icons))
                   /\ drag' = DragAfterDestroy(drag, LiveIcons(icons))
                   /\ ids' = [ids EXCEPT !.reload = 0]
        /\ UNCHANGED <<gridColumns, gridRows, enabled, files, iconPositions, customSizes,
                       creatingFolder, obs>>
        /\ UNCHANGED pixelVars

\* For each file the icon whose position _reloadIcons saves last: with one
\* icon per file there is one choice.
Picks(ic) ==
    {f \in [Files -> Objects \cup {NoIcon}] :
        \A name \in Files :
            IF IconOfFile(ic, name) = {} THEN f[name] = NoIcon
            ELSE f[name] \in IconOfFile(ic, name)}

\* _reloadIcons: save every icon's position divided by the cell width and
\* height and rounded, clearIcons, _buildCellGrid, _loadDesktopFiles.
ReloadIcons(d, src, late, pick, order) ==
    LET pos == [name \in Files |->
                   IF pick[name] = NoIcon THEN d.pos[name]
                   ELSE LET p == PositionSeen(d.icons, src, pick[name], late)
                        IN SavedPos(Round(p[1], d.size.width), Round(p[2], d.size.height))]
        cleared == ClearIcons([d EXCEPT !.pos = pos])
    IN LoadDesktopFiles([cleared EXCEPT !.cells = BuildCellGrid(d.columns, d.rows),
                                        !.px = d.size], order)

\* What a handler that ends in _reloadIcons leaves; cs is the table, gb
\* this._gridBounds and wa the work area when _reloadIcons is called.
Reloaded(cs, columns, rows, gb, wa, op) ==
    \E late \in Lates(sources), pick \in Picks(icons), order \in Orders(files) :
        LET size == CellSizeNow(gb, wa, columns, rows)
            d == ReloadIcons(Desk(cs, size, icons, iconPositions, columns, rows, size),
                             sources, late, pick, order)
        IN /\ cells' = d.cells
           /\ cellPixels' = d.px
           /\ icons' = d.icons
           /\ iconPositions' = d.pos
           /\ drag' = DragAfterDestroy(drag, LiveIcons(icons))
           /\ last' = Ran(op, d)

\* The settings handler: grid-columns and grid-rows rebuild and reload,
\* show-trash and show-home reload.
SettingsChanged(key, value) ==
    /\ enabled
    /\ Budget
    /\ obs' = Counted
    /\ key = "grid-columns" => value # gridColumns
    /\ key = "grid-rows" => value # gridRows
    /\ gridColumns' = IF key = "grid-columns" THEN value ELSE gridColumns
    /\ gridRows' = IF key = "grid-rows" THEN value ELSE gridRows
    /\ Reloaded(IF key \in {"grid-columns", "grid-rows"}
                THEN BuildCellGrid(gridColumns', gridRows') ELSE cells,
                gridColumns', gridRows', gridBounds, workArea, "settingsChanged")
    /\ sources' = StopTransitions(sources, LiveIcons(icons))
    /\ UNCHANGED <<enabled, files, customSizes, ids, creatingFolder, workArea, gridBounds>>

\* monitors-changed, with the work area the monitors have now:
\* _updateGridPosition, _buildCellGrid, _reloadIcons.
MonitorsChanged(area) ==
    /\ enabled
    /\ Budget
    /\ obs' = Counted
    /\ workArea' = area
    /\ gridBounds' = UpdateGridPosition(area, gridColumns, gridRows)
    /\ Reloaded(BuildCellGrid(gridColumns, gridRows), gridColumns, gridRows,
                gridBounds', area, "monitorsChanged")
    /\ sources' = StopTransitions(sources, LiveIcons(icons))
    /\ UNCHANGED <<gridColumns, gridRows, enabled, files, customSizes, ids, creatingFolder>>

Notified == [obs EXCEPT !.count = @ + 1, !.burst = @ + 1, !.since = 0]

\* _onWorkAreaChanged: the pending debounce timeout, if any, is replaced.
OnWorkAreaChanged(src) ==
    LET removed == RemoveSource(src, ids.debounce)
    IN /\ sources' = AddSource(removed, Timeout("debounce", debounceDelay))
       /\ ids' = [ids EXCEPT !.debounce = FreeSourceId(removed)]

\* workareas-changed, with the work area the primary monitor has now.
WorkAreasChanged(area) ==
    /\ enabled
    /\ Budget
    /\ HasFreeSource(RemoveSource(sources, ids.debounce))
    /\ OnWorkAreaChanged(sources)
    /\ workArea' = area
    /\ obs' = Notified
    /\ last' = [Blank EXCEPT !.op = "workAreasChanged"]
    /\ UNCHANGED <<gridColumns, gridRows, cells, enabled, files, icons, iconPositions,
                   customSizes, creatingFolder, drag, gridBounds, cellPixels>>

\* A relevant key of the dash settings changes: a timeout no field keeps.
DashSettingChanged ==
    /\ enabled
    /\ Budget
    /\ HasFreeSource(sources)
    /\ sources' = AddSource(sources, Timeout("dash", dashDelay))
    /\ obs' = Notified
    /\ last' = [Blank EXCEPT !.op = "dashSettingChanged"]
    /\ UNCHANGED <<gridColumns, gridRows, cells, enabled, files, icons, iconPositions,
                   customSizes, ids, creatingFolder, drag>>
    /\ UNCHANGED pixelVars

\* The 300 ms timeout of the dash handler calls _onWorkAreaChanged, whether
\* or not the extension is still enabled.
DashTimeout ==
    \E s \in SourceIds :
        /\ sources[s].kind = "dash" /\ sources[s].t = 0
        /\ OnWorkAreaChanged(RemoveSource(sources, s))
        /\ last' = [Blank EXCEPT !.op = "dashTimeout"]
        /\ UNCHANGED <<gridColumns, gridRows, cells, enabled, files, icons, iconPositions,
                       customSizes, creatingFolder, drag, obs>>
        /\ UNCHANGED pixelVars

\* The debounce timeout: _updateGridPosition (which builds) and
\* _reloadIcons.  After disable() _updateGridPosition returns at once and
\* _reloadIcons throws before _workAreaDebounceId is reset.
DebounceTimeout ==
    \E s \in SourceIds :
        /\ sources[s].kind = "debounce" /\ sources[s].t = 0
        /\ IF enabled
           THEN /\ gridBounds' = UpdateGridPosition(workArea, gridColumns, gridRows)
                /\ Reloaded(BuildCellGrid(gridColumns, gridRows), gridColumns, gridRows,
                            gridBounds', workArea, "debounceTimeout")
                /\ sources' = StopTransitions(RemoveSource(sources, s), LiveIcons(icons))
                /\ ids' = [ids EXCEPT !.debounce = 0]
                /\ obs' = [obs EXCEPT !.runs = @ + 1]
           ELSE /\ sources' = RemoveSource(sources, s)
                /\ last' = [Blank EXCEPT !.op = "debounceTimeout"]
                /\ UNCHANGED <<cells, icons, iconPositions, drag, ids, obs, gridBounds,
                               cellPixels>>
        /\ UNCHANGED <<gridColumns, gridRows, enabled, files, customSizes, creatingFolder,
                       workArea>>

\* DesktopGrid._createFolder: the flag, the directory, a timeout no field
\* keeps; the monitor reports CREATED while the flag is set.
CreateFolder(name) ==
    /\ enabled
    /\ Budget
    /\ obs' = Counted
    /\ name \notin files
    /\ LET removed == RemoveSource(sources, ids.reload)
           added == AddSource(removed, [Timeout("reloadAdd", reloadItemDelay)
                                           EXCEPT !.file = name])
       IN /\ HasFreeSource(removed)
          /\ HasFreeSource(added)
          /\ sources' = AddSource(added, Timeout("folderFlag", folderFlagDelay))
          /\ ids' = [ids EXCEPT !.reload = FreeSourceId(removed)]
    /\ files' = files \cup {name}
    /\ creatingFolder' = TRUE
    /\ last' = [Blank EXCEPT !.op = "createFolder"]
    /\ UNCHANGED <<gridColumns, gridRows, cells, enabled, icons, iconPositions, customSizes,
                   drag>>
    /\ UNCHANGED pixelVars

\* The 1000 ms timeout of _createFolder resets the flag.
FolderFlagTimeout ==
    \E s \in SourceIds :
        /\ sources[s].kind = "folderFlag" /\ sources[s].t = 0
        /\ sources' = RemoveSource(sources, s)
        /\ creatingFolder' = FALSE
        /\ last' = [Blank EXCEPT !.op = "folderFlagTimeout"]
        /\ UNCHANGED <<gridColumns, gridRows, cells, enabled, files, icons, iconPositions,
                       customSizes, ids, drag, obs>>
        /\ UNCHANGED pixelVars

\* disable(): the init and debounce timeouts are removed, the signals
\* disconnected, the grid destroyed with its icons.  _reloadTimeout and the
\* timeouts no field keeps are left; _cells is left.
Disable ==
    /\ enabled
    /\ enabled' = FALSE
    /\ sources' = StopTransitions(RemoveSource(RemoveSource(sources, ids.init), ids.debounce),
                                  LiveIcons(icons))
    /\ ids' = [ids EXCEPT !.init = 0, !.debounce = 0]
    /\ icons' = [id \in Objects |-> DeadIcon]
    /\ cells' = MarkStale(cells, LiveIcons(icons))
    /\ drag' = [drag EXCEPT !.icon = NoIcon]
    /\ last' = [Blank EXCEPT !.op = "disable"]
    /\ UNCHANGED <<gridColumns, gridRows, files, iconPositions, customSizes, creatingFolder,
                   obs>>
    /\ UNCHANGED pixelVars

\* A click in the size selector of an icon's context menu:
\* _setCustomIconCellSize and updateSize.  The menu is modal: no drag is in
\* progress.
SizeClick(id, cellSize) ==
    /\ enabled
    /\ Budget
    /\ obs' = Counted
    /\ id \in LiveIcons(icons)
    /\ drag.icon = NoIcon
    /\ cellSize # icons[id].cellSize
    /\ customSizes' = [customSizes EXCEPT ![icons[id].file] = cellSize]
    /\ icons' = [icons EXCEPT ![id].cellSize = cellSize]
    /\ last' = [Blank EXCEPT !.op = "sizeClick", !.icon = id]
    /\ UNCHANGED <<gridColumns, gridRows, cells, enabled, files, iconPositions, sources, ids,
                   creatingFolder, drag>>
    /\ UNCHANGED pixelVars

\* _destroyDropIndicator
DestroyDropIndicator(dg) ==
    [dg EXCEPT !.indicator = FALSE, !.hasTarget = FALSE, !.col = 0, !.row = 0,
               !.canDrop = FALSE]

\* _cancelDrag
CancelDrag(dg) ==
    IF dg.icon = NoIcon THEN dg
    ELSE DestroyDropIndicator([dg EXCEPT !.icon = NoIcon, !.dragging = FALSE])

\* _startIconDrag, from the button press on an icon.
StartIconDrag(id) ==
    /\ enabled
    /\ Budget
    /\ obs' = Counted
    /\ id \in LiveIcons(icons)
    /\ drag' = [CancelDrag(drag) EXCEPT !.icon = id, !.dragging = FALSE]
    /\ last' = [Blank EXCEPT !.op = "startIconDrag", !.icon = id]
    /\ UNCHANGED <<gridColumns, gridRows, cells, enabled, files, icons, iconPositions,
                   customSizes, sources, ids, creatingFolder>>
    /\ UNCHANGED pixelVars

\* Variant of CanIconFitAt that does not let the dragged icon's own cells
\* pass.
CanIconFitAtAnyIconBlocks(cs, col, row, cols, rows, draggedIcon, gridCols, gridRowCount) ==
    IF col < 0 \/ row < 0 \/ col + cols > gridCols \/ row + rows > gridRowCount THEN FALSE
    ELSE \A c \in col..(col + cols - 1) : \A r \in row..(row + rows - 1) :
            LET cell == GetCell(cs, c, r)
            IN ~IsNull(cell) /\ cell.icon = NoIcon

\* _canIconFitAt: the bounds of the settings, then every cell present and
\* without an icon other than the dragged one.
CanIconFitAt(cs, col, row, cols, rows, draggedIcon, gridCols, gridRowCount) ==
    IF col < 0 \/ row < 0 \/ col + cols > gridCols \/ row + rows > gridRowCount THEN FALSE
    ELSE \A c \in col..(col + cols - 1) : \A r \in row..(row + rows - 1) :
            LET cell == GetCell(cs, c, r)
            IN ~IsNull(cell) /\ ~(cell.icon # NoIcon /\ cell.icon # draggedIcon)

\* _updateDropIndicator for the target cell under the pointer.
UpdateDropIndicator(dg, cs, ic, col, row, gridCols, gridRowCount) ==
    LET cols == OrOne(ic[dg.icon].cellSize.cols)
        rows == OrOne(ic[dg.icon].cellSize.rows)
    IN IF CanIconFitAt(cs, col, row, cols, rows, dg.icon, gridCols, gridRowCount)
       THEN [dg EXCEPT !.hasTarget = TRUE, !.col = col, !.row = row, !.canDrop = TRUE]
       ELSE [dg EXCEPT !.canDrop = FALSE]

\* A captured event while _dragIcon is a destroyed icon: the safety check
\* drops the reference and nothing else.
StaleDragEvent ==
    /\ enabled
    /\ drag.icon = StaleIcon
    /\ drag' = [drag EXCEPT !.icon = NoIcon]
    /\ last' = [Blank EXCEPT !.op = "staleDragEvent"]
    /\ UNCHANGED <<gridColumns, gridRows, cells, enabled, files, icons, iconPositions,
                   customSizes, sources, ids, creatingFolder, obs>>
    /\ UNCHANGED pixelVars

\* A MOTION event with the button held, more than 3 px from the press: the
\* drag begins if it has not, then the pointer is at the screen edge
\* (_cancelDrag) or over the target cell (col, row).
Motion(col, row, edge, late) ==
    /\ late \in Lates(sources)
    /\ enabled
    /\ Budget
    /\ obs' = Counted
    /\ drag.icon \in Objects
    /\ LET orig == PositionSeen(icons, sources, drag.icon, late)
           begun == IF drag.dragging THEN drag
                    ELSE [drag EXCEPT !.dragging = TRUE, !.origX = orig[1],
                                      !.origY = orig[2], !.indicator = TRUE,
                                      !.canDrop = FALSE]
       IN drag' = IF edge THEN CancelDrag(begun)
                  ELSE UpdateDropIndicator(begun, cells, icons, col, row, gridColumns, gridRows)
    /\ last' = [Blank EXCEPT !.op = IF edge THEN "cancelDrag" ELSE "motion",
                             !.icon = drag.icon, !.col = col, !.row = row]
    /\ UNCHANGED <<gridColumns, gridRows, cells, enabled, files, icons, iconPositions,
                   customSizes, sources, ids, creatingFolder>>
    /\ UNCHANGED pixelVars

\* _endDrag, from BUTTON_RELEASE or from a MOTION event without the button.
\* last.found tells whether the drop was committed (the ease started).
EndDrag ==
    /\ enabled
    /\ drag.icon \in Objects
    /\ drag' = DestroyDropIndicator([drag EXCEPT !.icon = NoIcon, !.dragging = FALSE])
    /\ LET id == drag.icon
           released == RemoveIconFromCells(cells, id, gridColumns, gridRows)
           size == CellSizeNow(gridBounds, workArea, gridColumns, gridRows)
           d0 == Desk(cells, cellPixels, icons, iconPositions, gridColumns, gridRows, size)
           valid == drag.canDrop /\ drag.hasTarget
           commit == valid /\ ~IsNull(GetCell(released, drag.col, drag.row))
           from == IF valid THEN [d0 EXCEPT !.cells = released] ELSE d0
           origCol == drag.origX \div size.width
           origRow == drag.origY \div size.height
           d == IF ~drag.dragging \/ cells.isNull \/ commit THEN from
                ELSE IF IsNull(GetCell(from.cells, origCol, origRow)) THEN from
                ELSE DeskPlace(from, id, origCol, origRow)
       IN IF ~drag.dragging \/ cells.isNull
          THEN /\ last' = [Blank EXCEPT !.op = "endDrag", !.icon = id]
               /\ UNCHANGED <<cells, icons, sources>>
          ELSE /\ cells' = d.cells
               /\ icons' = d.icons
               /\ commit => HasFreeSource(sources)
               /\ sources' = IF commit
                             THEN AddSource(sources,
                                            [Timeout("ease", easeDuration) EXCEPT
                                                !.icon = id, !.col = drag.col, !.row = drag.row])
                             ELSE sources
               /\ last' = [Ran("endDrag", d) EXCEPT !.icon = id, !.found = commit,
                                                   !.col = drag.col, !.row = drag.row]
    /\ UNCHANGED <<gridColumns, gridRows, enabled, files, iconPositions, customSizes,
                   ids, creatingFolder, obs>>
    /\ UNCHANGED pixelVars

\* onComplete of the ease _endDrag started: placeIconInCell on the target
\* and _saveIconPosition.
EaseComplete ==
    \E s \in SourceIds :
        /\ sources[s].kind = "ease" /\ sources[s].t = 0
        /\ LET id == sources[s].icon
               size == CellSizeNow(gridBounds, workArea, gridColumns, gridRows)
               d == DeskPlace(Desk(cells, cellPixels, icons, iconPositions, gridColumns,
                                   gridRows, size),
                              id, sources[s].col, sources[s].row)
           IN /\ cells' = d.cells
              /\ icons' = [d.icons EXCEPT ![id].col = sources[s].col,
                                          ![id].row = sources[s].row,
                                          ![id].x = sources[s].col * cellPixels.width,
                                          ![id].y = sources[s].row * cellPixels.height]
              /\ iconPositions' = [iconPositions EXCEPT ![icons[id].file] =
                                      SavedPos(sources[s].col, sources[s].row)]
              /\ last' = [Ran("easeComplete", d) EXCEPT !.icon = id, !.col = sources[s].col,
                                                        !.row = sources[s].row]
        /\ sources' = RemoveSource(sources, s)
        /\ UNCHANGED <<gridColumns, gridRows, enabled, files, customSizes, ids,
                       creatingFolder, drag, obs>>
        /\ UNCHANGED pixelVars

\* Dragging, resizing, and files that come (moved in) and go.
NextDrag ==
    \/ Tick
    \/ InitTimeout
    \/ RemoveIconTimeout
    \/ ReloadAllTimeout
    \/ EaseComplete
    \/ \E name \in Files : FileAppears(name, TRUE)
    \/ \E name \in Files : FileVanishes(name)
    \/ \E id \in Objects, cellSize \in Footprints : SizeClick(id, cellSize)
    \/ \E id \in Objects : StartIconDrag(id)
    \/ \E col \in AnchorCols, row \in AnchorRows, edge, late \in BOOLEAN :
          Motion(col, row, edge, late)
    \/ EndDrag
    \/ StaleDragEvent

\* After enable() on the largest grid.
InitLargest == InitDesk /\ gridColumns = MaxCols /\ gridRows = MaxRows

SpecDrag == InitLargest /\ [][NextDrag]_vars
\* The keys the settings handler reloads for, with the values tried: no
\* column or row, and one less than the most.
SettingsKeys ==
    ({"grid-columns"} \X {0, MaxCols - 1}) \cup ({"grid-rows"} \X {0, MaxRows - 1})
        \cup {<<"show-trash", 0>>}

\* The life of the table: settings, display signals that leave the work
\* area of the primary monitor as it is, disable().
NextLife ==
    \/ Tick
    \/ InitTimeout
    \/ DebounceTimeout
    \/ \E kv \in SettingsKeys : SettingsChanged(kv[1], kv[2])
    \/ MonitorsChanged(workArea)
    \/ WorkAreasChanged(workArea)
    \/ Disable

\* After enable() on the largest grid, every file on the Desktop.
InitFull == InitLargest /\ files = Files

SpecLife == InitFull /\ [][NextLife]_vars

\* The Desktop directory: files that come and go, folders created from the
\* grid, disable().
NextFiles ==
    \/ Tick
    \/ InitTimeout
    \/ AddIconTimeout
    \/ RemoveIconTimeout
    \/ ReloadAllTimeout
    \/ FolderFlagTimeout
    \/ \E name \in Files, moved \in BOOLEAN : FileAppears(name, moved)
    \/ \E name \in Files : FileVanishes(name)
    \/ \E name \in Files : CreateFolder(name)
    \/ Disable

SpecFiles == InitDesk /\ [][NextFiles]_vars
\* A notification may join the burst: it is the first, or the previous one
\* came less than 100 ms ago.
InBurst == obs.burst = 0 \/ obs.since < Ticks(debounceDelay)

\* One burst of work-area and dash-setting notifications.
NextDebounce ==
    \/ Tick
    \/ InitTimeout
    \/ DebounceTimeout
    \/ DashTimeout
    \/ InBurst /\ WorkAreasChanged(workArea)
    \/ InBurst /\ DashSettingChanged

SpecDebounce == InitFull /\ [][NextDebounce]_vars

\* The handlers that end in _reloadIcons with the grid dimensions as they
\* are, while a dock comes and goes.
NextReplay ==
    \/ Tick
    \/ InitTimeout
    \/ DebounceTimeout
    \/ SettingsChanged("show-trash", 0)
    \/ \E area \in WorkAreas : MonitorsChanged(area)
    \/ \E area \in WorkAreas : WorkAreasChanged(area)

\* After enable() on the largest grid, every file on the Desktop, with or
\* without the dock.
InitReplay ==
    InitDeskOn(WorkAreas) /\ gridColumns = MaxCols /\ gridRows = MaxRows /\ files = Files

SpecReplay == InitReplay /\ [][NextReplay]_vars

\* The size selector, and the reload that creates the icons again.
NextSize ==
    \/ Tick
    \/ InitTimeout
    \/ SettingsChanged("show-trash", 0)
    \/ \E id \in Objects, cellSize \in SelectorSizes : SizeClick(id, cellSize)

SpecSize == InitFull /\ [][NextSize]_vars

\* The handlers that position the grid, on an empty Desktop whose work
\* area stays the one drawn at the start.
NextPosition ==
    \/ Tick
    \/ InitTimeout
    \/ DebounceTimeout
    \/ MonitorsChanged(workArea)
    \/ WorkAreasChanged(workArea)

\* After enable() with any grid dimensions from 1 x 1 on, any of the work
\* areas and an empty Desktop.
InitPosition ==
    /\ gridColumns \in 1..MaxCols
    /\ gridRows \in 1..MaxRows
    /\ cells = NullCells
    /\ last = Blank
    /\ enabled = TRUE
    /\ files = {}
    /\ icons = [id \in Objects |-> DeadIcon]
    /\ iconPositions = [name \in Files |-> NoPos]
    /\ customSizes = [name \in Files |-> OneByOne]
    /\ sources = [s \in SourceIds |-> IF s = 1 THEN Timeout("init", initDelay) ELSE NoSource]
    /\ ids = [NoIds EXCEPT !.init = 1]
    /\ creatingFolder = FALSE
    /\ drag = NoDrag
    /\ obs = NoObs
    /\ workArea \in PositionAreas
    /\ gridBounds = NoBounds
    /\ cellPixels = NoPixels

SpecPosition == InitPosition /\ [][NextPosition]_vars

\* Dragging while a folder is created from the grid.
NextDrop ==
    \/ Tick
    \/ InitTimeout
    \/ AddIconTimeout
    \/ FolderFlagTimeout
    \/ EaseComplete
    \/ \E name \in Files : CreateFolder(name)
    \/ \E id \in Objects : StartIconDrag(id)
    \/ \E col \in AnchorCols, row \in AnchorRows, edge, late \in BOOLEAN :
          Motion(col, row, edge, late)
    \/ EndDrag

SpecDrop == InitLargest /\ [][NextDrop]_vars

\* ------------------------------------------------------------------ claims
\* The cells of the placement anchored at (col, row) with footprint
\* cols x rows.
Placement(col, row, cols, rows) ==
    {<<col + dc, row + dr>> : dc \in 0..(cols - 1), dr \in 0..(rows - 1)}

LastSize == [cols |-> last.cols, rows |-> last.rows]

\* C1: after a reserve (placeIconInCell) of a placement for which
\* areCellsFree held before the call, every cell of the placement has the
\* icon as occupant and is flagged occupied, and areCellsFree of the same
\* placement is false for every exclusion other than the icon (none
\* included).
C1_ReserveOccupiesPlacement ==
    (last.op = "place" /\ last.found) =>
        /\ \A p \in Placement(last.col, last.row, last.cols, last.rows) :
              LET cell == GetCell(cells, p[1], p[2])
              IN ~IsNull(cell) /\ cell.icon = last.icon /\ cell.occupied
        /\ \A ex \in IconRefs \ {last.icon} :
              ~AreCellsFree(cells, last.col, last.row, LastSize, ex)

\* A 2x2 icon has been reserved on a free placement while another icon
\* holds cells elsewhere.
C1_Witness ==
    /\ last.op = "place" /\ last.found
    /\ last.cols = 2 /\ last.rows = 2
    /\ \E other \in Icons \ {last.icon} : CellsOf(cells, other) # {}

\* C7: after a build with columns > 0 and rows > 0 every cell of
\* [0, columns) x [0, rows) exists, is free and has no occupant, whatever
\* the table held before, and getCell outside that range is not-found.
C7_BuildAllFree ==
    (last.op = "build" /\ last.cols > 0 /\ last.rows > 0) =>
        \A col \in AnchorCols, row \in AnchorRows :
            LET cell == GetCell(cells, col, row)
            IN IF 0 <= col /\ col < last.cols /\ 0 <= row /\ row < last.rows
               THEN /\ ~IsNull(cell)
                    /\ cell.col = col /\ cell.row = row
                    /\ ~cell.occupied /\ cell.icon = NoIcon
               ELSE IsNull(cell)

\* A table holding an icon has been rebuilt, to a size smaller than the
\* anchors queried.
C7_Witness ==
    /\ last.op = "build" /\ last.found
    /\ last.cols = 2 /\ last.rows = 2

\* C8: a build with columns <= 0 or rows <= 0 fails with InvalidDimension.
C8_BuildRejectsInvalidDimension ==
    (last.op = "build" /\ (last.cols <= 0 \/ last.rows <= 0)) =>
        last.error = "InvalidDimension"

\* C10: release (removeIconFromCells) is idempotent: releasing the same icon
\* again leaves the table as the first release left it, and a release of an
\* icon that holds no cell leaves the table unchanged.
C10_ReleaseIdempotent ==
    [][last'.op = "release" =>
          /\ RemoveIconFromCells(cells', last'.icon, gridColumns', gridRows') = cells'
          /\ (CellsOf(cells, last'.icon) = {} => cells' = cells)]_vars

\* An icon that held cells has been released while another icon keeps its
\* cells.
C10_Witness ==
    /\ last.op = "release" /\ last.found
    /\ \E other \in Icons \ {last.icon} : CellsOf(cells, other) # {}

\* C2: areCellsFree returns true exactly when the table exists and every
\* cell of the placement lies inside [0, columns) x [0, rows) and is free or
\* occupied by the excluded icon; the call leaves the table unchanged.
C2_AreCellsFreeExact ==
    [][last'.op = "areCellsFree" =>
          /\ cells' = cells
          /\ last'.found =
                (\A p \in Placement(last'.col, last'.row, last'.cols, last'.rows) :
                    /\ ~cells.isNull
                    /\ 0 <= p[1] /\ p[1] < gridColumns
                    /\ 0 <= p[2] /\ p[2] < gridRows
                    /\ LET cell == cells.arr[p[1] + 1][p[2] + 1]
                       IN ~cell.occupied \/ cell.icon = last'.exclude)]_vars

\* areCellsFree has answered true for a two-column placement that the
\* excluded icon occupies.
C2_Witness ==
    /\ last.op = "areCellsFree" /\ last.found
    /\ last.cols = 2 /\ last.exclude # NoIcon
    /\ \E p \in Placement(last.col, last.row, last.cols, last.rows) :
          GetCell(cells, p[1], p[2]).icon = last.exclude

\* C3: findFreeCell returns an anchor for which areCellsFree holds and that
\* no other such anchor precedes in row-major order (rows top to bottom,
\* columns left to right within a row); it returns not-found exactly when
\* areCellsFree holds for no anchor.
C3_FindFreeCellFirstRowMajor ==
    (last.op = "findFreeCell") =>
        LET Free(col, row) == AreCellsFree(cells, col, row, LastSize, last.exclude)
        IN IF last.found
           THEN /\ Free(last.rcol, last.rrow)
                /\ \A col \in AnchorCols, row \in AnchorRows :
                      Free(col, row) =>
                          ~(row < last.rrow \/ (row = last.rrow /\ col < last.rcol))
           ELSE \A col \in AnchorCols, row \in AnchorRows : ~Free(col, row)

\* findFreeCell has returned an anchor that is neither in the first row nor
\* in the first column.
C3_Witness ==
    /\ last.op = "findFreeCell" /\ last.found
    /\ last.rcol > 0 /\ last.rrow > 0

\* The spiral order of C4 between two anchors, seen from the target of the
\* last call: ring radius max(|dc|, |dr|) ascending, then dc ascending, then
\* dr ascending.
C4_Earlier(a, b) ==
    LET adc == a[1] - last.col
        adr == a[2] - last.row
        bdc == b[1] - last.col
        bdr == b[2] - last.row
        ar == Max(Abs(adc), Abs(adr))
        br == Max(Abs(bdc), Abs(bdr))
    IN \/ ar < br
       \/ ar = br /\ adc < bdc
       \/ ar = br /\ adc = bdc /\ adr < bdr

\* The anchors findNearestFreeCell may return when the target is not free:
\* on a ring of radius 1 .. maxRadius, no negative coordinate, areCellsFree.
C4_Candidates ==
    {a \in AnchorCols \X AnchorRows :
        /\ LET r == Max(Abs(a[1] - last.col), Abs(a[2] - last.row))
           IN 1 <= r /\ r <= maxRadius
        /\ a[1] >= 0 /\ a[2] >= 0
        /\ AreCellsFree(cells, a[1], a[2], LastSize, last.exclude)}

\* C4: when the target is not free, findNearestFreeCell returns the first
\* candidate in spiral order and not-found when there is none; on a 3x3
\* grid with only (1,1) occupied, target (1,1), 1x1 and no exclusion the
\* result is (0,0).
C4_NearestSpiralOrder ==
    (/\ last.op = "findNearestFreeCell"
     /\ ~AreCellsFree(cells, last.col, last.row, LastSize, last.exclude)) =>
        /\ last.found = (C4_Candidates # {})
        /\ last.found =>
              /\ <<last.rcol, last.rrow>> \in C4_Candidates
              /\ \A b \in C4_Candidates \ {<<last.rcol, last.rrow>>} :
                    C4_Earlier(<<last.rcol, last.rrow>>, b)
        /\ (/\ gridColumns = 3 /\ gridRows = 3
            /\ last.col = 1 /\ last.row = 1 /\ last.cols = 1 /\ last.rows = 1
            /\ last.exclude = NoIcon
            /\ \A col \in 0..2, row \in 0..2 :
                  GetCell(cells, col, row).occupied = (col = 1 /\ row = 1))
           => (last.found /\ last.rcol = 0 /\ last.rrow = 0)

\* The example of C4: 3x3 grid, only the centre occupied, target the centre.
C4_Witness ==
    /\ last.op = "findNearestFreeCell" /\ last.searched
    /\ gridColumns = 3 /\ gridRows = 3
    /\ last.col = 1 /\ last.row = 1 /\ last.cols = 1 /\ last.rows = 1
    /\ last.exclude = NoIcon
    /\ \A col \in 0..2, row \in 0..2 :
          GetCell(cells, col, row).occupied = (col = 1 /\ row = 1)
    /\ last.found /\ last.rcol = 0 /\ last.rrow = 0

\* C5: when areCellsFree holds for the target (its cells free or occupied
\* by the excluded icon only), findNearestFreeCell returns the target and
\* does not enter the spiral.
C5_NearestReturnsFreeTarget ==
    (/\ last.op = "findNearestFreeCell"
     /\ AreCellsFree(cells, last.col, last.row, LastSize, last.exclude)) =>
        /\ last.found /\ last.rcol = last.col /\ last.rrow = last.row
        /\ ~last.searched

\* The target returned is occupied by the excluded icon itself.
C5_Witness ==
    /\ last.op = "findNearestFreeCell" /\ last.found /\ ~last.searched
    /\ last.rcol = last.col /\ last.rrow = last.row
    /\ last.exclude # NoIcon
    /\ GetCell(cells, last.col, last.row).icon = last.exclude

\* C6: findNearestFreeCell never returns an anchor with a negative
\* coordinate, whatever the target.
C6_NearestNeverNegative ==
    (last.op = "findNearestFreeCell" /\ last.found) =>
        (last.rcol >= 0 /\ last.rrow >= 0)

\* A search from the target (-1, -1) has found an anchor.
C6_Witness ==
    /\ last.op = "findNearestFreeCell" /\ last.found
    /\ last.col = -1 /\ last.row = -1

\* C9: getCell returns the cell stored at (col, row) when the table exists
\* and 0 <= col < columns, 0 <= row < rows, and not-found for every other
\* pair, also before any table was built; the call leaves the table
\* unchanged.
C9_GetCellBounds ==
    [][last'.op = "getCell" =>
          /\ cells' = cells
          /\ IF /\ ~cells.isNull
                /\ 0 <= last'.col /\ last'.col < gridColumns
                /\ 0 <= last'.row /\ last'.row < gridRows
             THEN /\ last'.found
                  /\ last'.cell = cells.arr[last'.col + 1][last'.row + 1]
                  /\ last'.cell.col = last'.col /\ last'.cell.row = last'.row
             ELSE ~last'.found /\ last'.cell = NullCell]_vars

\* getCell has returned an occupied cell of the first column.
C9_Witness ==
    /\ last.op = "getCell" /\ last.found
    /\ last.col = 0 /\ last.cell.occupied

\* C11: reserve, then release, then areCellsFree of the same placement:
\* when every cell of the placement lies inside the grid, every cell of the
\* placement is free afterwards and areCellsFree returns true.
C11_RoundTripRestoresFreedom ==
    (/\ last.op = "roundTrip"
     /\ \A p \in Placement(last.col, last.row, last.cols, last.rows) :
            ~IsNull(GetCell(cells, p[1], p[2]))) =>
        /\ last.found
        /\ \A p \in Placement(last.col, last.row, last.cols, last.rows) :
              LET cell == GetCell(cells, p[1], p[2])
              IN ~cell.occupied /\ cell.icon = NoIcon

\* A 2x2 placement ending in the last column has made the round trip
\* while another icon holds cells.
C11_Witness ==
    /\ last.op = "roundTrip" /\ last.found
    /\ last.cols = 2 /\ last.rows = 2
    /\ last.col + 2 = gridColumns
    /\ \E other \in Icons \ {last.icon} : CellsOf(cells, other) # {}

\* C12: in every reachable state of the table (after load, drag and drop,
\* the deletion cleanup and reload) a cell's occupied flag is true exactly
\* when its icon reference is non-null.
C12_OccupiedIffIcon ==
    \A c \in DOMAIN cells.arr : \A r \in DOMAIN cells.arr[c] :
        cells.arr[c][r].occupied <=> (cells.arr[c][r].icon # NoIcon)

\* The deletion cleanup has freed the cells of one icon while another icon
\* holds its cells.
C12_Witness ==
    /\ last.op = "removeIconTimeout"
    /\ \E id \in LiveIcons(icons) : CellsOf(cells, id) # {}
    /\ \E c \in DOMAIN cells.arr : \E r \in DOMAIN cells.arr[c] : ~cells.arr[c][r].occupied
    /\ \E c \in DOMAIN cells.arr : \E r \in DOMAIN cells.arr[c] : cells.arr[c][r].occupied

\* The table holds one cell for every (col, row) with 0 <= col < columns and
\* 0 <= row < rows, at its place, and no other.
TableMatches(cs, columns, rows) ==
    /\ ~cs.isNull
    /\ Len(cs.arr) = Max(columns, 0)
    /\ \A c \in DOMAIN cs.arr :
          /\ Len(cs.arr[c]) = Max(rows, 0)
          /\ \A r \in DOMAIN cs.arr[c] : cs.arr[c][r].col = c - 1 /\ cs.arr[c][r].row = r - 1

\* C13, as stated: at all times (of the enabled extension) the table exists
\* and holds exactly the cells of the configured grid-columns x grid-rows.
C13_TableAlwaysExists == enabled => TableMatches(cells, gridColumns, gridRows)

\* C13, amended: while the extension is enabled the table is missing only
\* before the first build, while the initialisation timeout is pending;
\* from the first build on it exists and holds one cell for every (col, row)
\* with 0 <= col < grid-columns and 0 <= row < grid-rows and no other.
C13_TableMatchesOnceBuilt ==
    /\ [](enabled =>
            IF cells.isNull
            THEN ids.init # 0 /\ sources[ids.init].kind = "init"
            ELSE TableMatches(cells, gridColumns, gridRows))
    /\ [][~cells.isNull => ~cells'.isNull]_vars

\* The settings handler has rebuilt the table for fewer columns than rows
\* and loaded an icon onto it.
C13_Witness ==
    /\ last.op = "settingsChanged"
    /\ enabled /\ ~cells.isNull
    /\ 0 < gridColumns /\ gridColumns < gridRows
    /\ \E id \in LiveIcons(icons) : CellsOf(cells, id) # {}

\* C14: a drop frees the icon's old cells and reserves the target cells
\* atomically: between the release in _endDrag and the reservation of the
\* target (while the ease of the dropped icon is pending) no other grid
\* operation changes the table.
C14_DropIsAtomic ==
    [][(\E s \in SourceIds : sources[s].kind = "ease") =>
          (cells' = cells \/ last'.op = "easeComplete")]_vars

\* C15: after disable() no timeout the extension scheduled is pending.
C15_NoTimerAfterDisable == ~enabled => Pending(sources) = {}

\* C16: once the file events have stopped and every timeout has run, the
\* grid holds an icon for a file exactly when the file is on the Desktop.
C16_IconsFollowFiles ==
    (enabled /\ Pending(sources) = {}) =>
        \A name \in Files : (IconOfFile(icons, name) # {}) <=> (name \in files)

\* C17: for a burst of workareas-changed or dash-setting notifications,
\* each less than 100 ms after the previous one, at most one debounce
\* timeout is pending at any time and exactly one reposition and reload
\* runs: none before the last notification, one once every timeout has run.
C17_OneReloadPerBurst ==
    /\ Cardinality({s \in SourceIds : sources[s].kind = "debounce"}) <= 1
    /\ obs.runs <= 1
    /\ (obs.burst > 0 /\ Pending(sources) = {}) => obs.runs = 1

\* C18: in every state between operations, for every icon on the grid the
\* cells whose occupant is the icon are the cells of its placement (anchor:
\* the icon's cell position, footprint: the icon's cell size).
C18_OccupancyConsistent ==
    enabled =>
        \A id \in LiveIcons(icons) :
            CellsOf(cells, id) =
                Placement(icons[id].col, icons[id].row,
                          icons[id].cellSize.cols, icons[id].cellSize.rows)

\* C19: every placeIconInCell call a handler makes is made on a placement
\* for which areCellsFree(anchor, footprint, the icon placed) holds at the
\* moment of the call.
C19_ReserveOnlyWhenFree == last.placed => last.placedFree

\* _canIconFitAt and areCellsFree agree on every anchor and footprint, for
\* every icon of the grid as the dragged icon.
QueryAgrees ==
    \A col \in AnchorCols, row \in AnchorRows, cellSize \in Footprints,
       id \in LiveIcons(icons) :
         CanIconFitAt(cells, col, row, cellSize.cols, cellSize.rows, id,
                      gridColumns, gridRows)
             = AreCellsFree(cells, col, row, cellSize, id)

\* C20: _canIconFitAt(col, row, cols, rows, draggedIcon) equals
\* areCellsFree(col, row, {cols, rows}, draggedIcon) for every table the
\* program reaches, every anchor, footprint and icon of the grid; a pointer
\* motion accepts its target (_canDrop, target recorded) exactly when the
\* query allows it, nothing but a motion accepts a target, and _endDrag
\* commits a drop only to the target the last motion accepted.  (The
\* equality is evaluated initially and after every step that changes the
\* table, the icons or the settings.)
C20_DropTargetFollowsQuery ==
    /\ QueryAgrees
    /\ [][/\ <<cells, icons, gridColumns, gridRows>>' # <<cells, icons, gridColumns, gridRows>>
               => QueryAgrees'
          /\ last'.op = "motion" =>
               /\ drag'.canDrop = AreCellsFree(cells, last'.col, last'.row,
                                               icons[drag.icon].cellSize, drag.icon)
               /\ drag'.canDrop =>
                     drag'.hasTarget /\ drag'.col = last'.col /\ drag'.row = last'.row
          /\ last'.op # "motion" =>
               (drag'.canDrop =>
                   drag.canDrop /\ drag'.col = drag.col /\ drag'.row = drag.row)
          /\ (last'.op = "endDrag" /\ last'.found) =>
               /\ drag.canDrop /\ drag.hasTarget
               /\ \E s \in SourceIds :
                     /\ sources[s].kind = "none" /\ sources'[s].kind = "ease"
                     /\ sources'[s].icon = drag.icon
                     /\ sources'[s].col = drag.col /\ sources'[s].row = drag.row]_vars

\* A 2x2 icon has been dropped one cell away, onto cells it held itself,
\* while another icon holds cells.
C20_Witness ==
    /\ last.op = "endDrag" /\ last.found
    /\ icons[last.icon].cellSize = [cols |-> 2, rows |-> 2]
    /\ <<last.col, last.row>> # <<icons[last.icon].col, icons[last.icon].row>>
    /\ Abs(last.col - icons[last.icon].col) <= 1
    /\ Abs(last.row - icons[last.icon].row) <= 1
    /\ \E other \in LiveIcons(icons) \ {last.icon} : CellsOf(cells, other) # {}

\* C21: when _reloadIcons runs with grid columns and rows unchanged (from
\* the debounce timeout of a work-area change, from monitors-changed or
\* from a show-trash / show-home change), every icon that held cells of
\* the grid before and whose file still exists is placed at the same
\* (col, row) anchor afterwards.
C21_ReloadReplaysPlacements ==
    [][(/\ last'.op \in {"debounceTimeout", "monitorsChanged", "settingsChanged"}
        /\ enabled
        /\ gridColumns' = gridColumns /\ gridRows' = gridRows) =>
          \A id \in LiveIcons(icons) :
              (CellsOf(cells, id) # {} /\ icons[id].file \in files) =>
                  \E new \in IconOfFile(icons', icons[id].file) :
                      /\ CellsOf(cells', new) # {}
                      /\ icons'[new].col = icons[id].col
                      /\ icons'[new].row = icons[id].row]_vars

\* C22: for every size cols x rows with 1 <= cols, rows <= 4 of the size
\* selector, storing it with _setCustomIconCellSize and reading it back
\* with _getIconCellSize yields the footprint selected: every icon of the
\* grid, also one created again on reload, has the footprint stored for
\* its file.
C22_SizeReadBack ==
    \A id \in LiveIcons(icons) : icons[id].cellSize = customSizes[icons[id].file]

\* C23: in every reachable state every occupied cell references an icon
\* that is in the grid's icon list; in particular after the file monitor's
\* full reload no cell references an icon clearIcons destroyed.
C23_NoStaleOccupancy ==
    enabled =>
        \A c \in DOMAIN cells.arr : \A r \in DOMAIN cells.arr[c] :
            (cells.arr[c][r].occupied \/ cells.arr[c][r].icon # NoIcon) =>
                cells.arr[c][r].icon \in LiveIcons(icons)

\* C24: in every reachable state the grid holds at most one icon per file
\* name, however the initialisation timeout interleaves with the settings,
\* monitors-changed and debounce handlers.
C24_OneIconPerFile ==
    \A name \in Files : Cardinality(IconOfFile(icons, name)) <= 1

\* C25: when the file monitor removes the icon of a deleted or moved-out
\* file, exactly the cells whose occupant is that icon become free, and
\* every other cell keeps its occupant and its occupied flag.
C25_DeletionFreesOwnCells ==
    [][(last'.op = "removeIconTimeout" /\ icons' # icons) =>
          \E id \in LiveIcons(icons) \ LiveIcons(icons') :
              \A c \in DOMAIN cells.arr : \A r \in DOMAIN cells.arr[c] :
                  IF cells.arr[c][r].icon = id
                  THEN ~cells'.arr[c][r].occupied /\ cells'.arr[c][r].icon = NoIcon
                  ELSE cells'.arr[c][r] = cells.arr[c][r]]_vars

\* C26: in every reachable state of the enabled extension _isDragging is
\* true only while _dragIcon is non-null, a drop indicator exists and
\* _canDrop is true only while _isDragging is true, and after _endDrag,
\* _cancelDrag or the safety exit of the captured-event handler no drag is
\* in progress and no drop indicator remains.
C26_DragStateInvariant ==
    enabled =>
        /\ drag.dragging => drag.icon # NoIcon
        /\ (drag.indicator \/ drag.canDrop) => drag.dragging
        /\ last.op \in {"endDrag", "cancelDrag", "staleDragEvent"} =>
              drag.icon = NoIcon /\ ~drag.dragging /\ ~drag.indicator

\* C27: a press and release without a drag, a drag cancelled by _cancelDrag
\* (a new press, the pointer at the screen edge) and a drag released while
\* the last target was rejected leave every cell of the table and the
\* saved positions unchanged.
C27_NoDropLeavesTableAlone ==
    [][(\/ last'.op \in {"cancelDrag", "startIconDrag"}
        \/ last'.op = "endDrag" /\ (~drag.dragging \/ ~drag.canDrop)) =>
          cells' = cells /\ iconPositions' = iconPositions]_vars

\* C28: when the animation of an accepted drop completes, the dragged icon
\* occupies exactly the cells of the placement anchored at the drop target
\* with its footprint, the saved position of its file is the target, and
\* the cells of every other icon are unchanged.
C28_AcceptedDropCompletes ==
    [][last'.op = "easeComplete" =>
          LET id == last'.icon
          IN /\ CellsOf(cells', id) =
                    Placement(last'.col, last'.row,
                              icons'[id].cellSize.cols, icons'[id].cellSize.rows)
             /\ iconPositions'[icons'[id].file] = SavedPos(last'.col, last'.row)
             /\ \A other \in LiveIcons(icons) \ {id} :
                    CellsOf(cells', other) = CellsOf(cells, other)]_vars

\* The Chebyshev distance of the anchor (col, row) to the target of the last
\* call.
Chebyshev(col, row) == Max(Abs(col - last.col), Abs(row - last.row))

\* C29: whenever findNearestFreeCell returns an anchor, areCellsFree holds
\* for it, and for no anchor with non-negative coordinates for which
\* areCellsFree holds the Chebyshev distance max(|col - targetCol|,
\* |row - targetRow|) to the target is strictly smaller.
C29_NearestIsNearest ==
    (last.op = "findNearestFreeCell" /\ last.found) =>
        /\ AreCellsFree(cells, last.rcol, last.rrow, LastSize, last.exclude)
        /\ \A col \in 0..MaxCols, row \in 0..MaxRows :
              AreCellsFree(cells, col, row, LastSize, last.exclude) =>
                  Chebyshev(col, row) >= Chebyshev(last.rcol, last.rrow)

\* The search has returned an anchor two rings away from an occupied
\* target: no anchor of the first ring was free.
C29_Witness ==
    /\ last.op = "findNearestFreeCell" /\ last.found /\ last.searched
    /\ last.col >= 0 /\ last.row >= 0
    /\ GetCell(cells, last.col, last.row).occupied
    /\ Chebyshev(last.rcol, last.rrow) = 2

\* C30: for every work area (x, y, width, height) and grid dimensions with
\* columns, rows >= 1, _updateGridPosition yields the cell sizes
\* floor(width / columns) and floor(height / rows), a grid rectangle of
\* cellWidth * columns by cellHeight * rows that lies inside the work area,
\* leftover pixels 0 <= width - gridWidth < columns and 0 <= height -
\* gridHeight < rows, and offsets floor(leftover / 2).  (Stated for the
\* state each handler that calls _updateGridPosition leaves.)
C30_GridInsideWorkArea ==
    (/\ last.op \in {"initTimeout", "monitorsChanged", "debounceTimeout"}
     /\ enabled /\ gridColumns >= 1 /\ gridRows >= 1) =>
        LET gb == gridBounds
            leftX == workArea.width - gb.width
            leftY == workArea.height - gb.height
            offX == gb.x - workArea.x
            offY == gb.y - workArea.y
        IN /\ gb.set
           /\ gb.cellWidth * gridColumns <= workArea.width
           /\ workArea.width < (gb.cellWidth + 1) * gridColumns
           /\ gb.cellHeight * gridRows <= workArea.height
           /\ workArea.height < (gb.cellHeight + 1) * gridRows
           /\ gb.width = gb.cellWidth * gridColumns
           /\ gb.height = gb.cellHeight * gridRows
           /\ 0 <= leftX /\ leftX < gridColumns
           /\ 0 <= leftY /\ leftY < gridRows
           /\ 2 * offX <= leftX /\ leftX < 2 * offX + 2
           /\ 2 * offY <= leftY /\ leftY < 2 * offY + 2
           /\ workArea.x <= gb.x /\ gb.x + gb.width <= workArea.x + workArea.width
           /\ workArea.y <= gb.y /\ gb.y + gb.height <= workArea.y + workArea.height

\* The grid has been positioned in a work area one pixel off the corner
\* that leaves two pixels in the width (offset 1) and one in the height
\* (offset 0).
C30_Witness ==
    /\ last.op = "debounceTimeout" /\ enabled
    /\ gridColumns = MaxCols /\ gridRows >= 2
    /\ workArea.x = 1 /\ workArea.y = 1
    /\ workArea.width - gridBounds.width = 2 /\ gridBounds.x = 2
    /\ workArea.height - gridBounds.height = 1 /\ gridBounds.y = 1

====
